---- MODULE Spec2Model ----
(***************************************************************************)
(* OpenImagen (src/src/core/imagen_generator.py): the constructor with its *)
(* credential lookup, the facade generate_image, the scene resolver with   *)
(* its local fallback classifier, the prompt builder, the retrying image   *)
(* requester, response extraction and the alt text; one call at a time and *)
(* several calls at the same time on one generator.                        *)
(*                                                                         *)
(* Representation.  A Python str is a sequence of one-character strings,   *)
(* a bytes object a sequence of numbers in 0..255, an Optional[T] a        *)
(* sequence of at most one T (None is the empty one).  An exception is a   *)
(* record holding its message; str(e) reads the message.                   *)
(*                                                                         *)
(* The file under src/ carries one extra level of backslash escaping       *)
(* (f\"\"\" at line 132, "\\n" at line 238, b'\\xff\\xd8\\xff' at line     *)
(* 292) and is not importable as it stands.  The model reads every one of  *)
(* these escapes one level down, the only reading under which the module   *)
(* defines a program: """ , "\n" , b'\xff\xd8\xff' and                     *)
(* b'\x89PNG\r\n\x1a\n'.                                                   *)
(***************************************************************************)
EXTENDS Integers, Sequences, FiniteSets, TLC

VARIABLES
    pc,                 \* where the call in progress stands
    request,            \* Optional[ImageRequest]: the argument of generate_image
    scene_description,  \* local of generate_image (Optional[str])
    prompt,             \* local of generate_image (Optional[str])
    attempt,            \* loop variable of _generate_with_retry (0-based)
    events,             \* the remote calls and sleeps of the call, in order
    retry_result,       \* how _generate_with_retry ended (Optional)
    result,             \* how generate_image ended (Optional)
    arg,                \* argument of a function applied on its own
    ret,                \* its return value (Optional)
    generator,          \* the OpenImagen object: its api_key and client fields
    calls               \* the locals of the calls that run concurrently

vars == <<pc, request, scene_description, prompt, attempt, events, retry_result, result, arg, ret,
          generator, calls>>

None == <<>>
Some(x) == <<x>>

----------------------------------------------------------------------------
(* Python str operations *)

Rep(c, n) == [i \in 1..n |-> c]

\* s[:n]
Take(s, n) == SubSeq(s, 1, IF Len(s) < n THEN Len(s) ELSE n)

UpperAlpha ==
    <<
      "A","B","C","D","E","F","G","H","I","J","K","L","M","N","O","P","Q","R","S","T","U","V",
        "W","X","Y","Z"
    >>
LowerAlpha ==
    <<
      "a","b","c","d","e","f","g","h","i","j","k","l","m","n","o","p","q","r","s","t","u","v",
        "w","x","y","z"
    >>

LowerChar(c) ==
    IF \E i \in 1..Len(UpperAlpha) : UpperAlpha[i] = c
    THEN LowerAlpha[CHOOSE i \in 1..Len(UpperAlpha) : UpperAlpha[i] = c]
    ELSE c

\* s.lower()
str_lower(s) == [i \in 1..Len(s) |-> LowerChar(s[i])]

\* term in s
Contains(term, s) ==
    \E i \in 0..(Len(s) - Len(term)) : SubSeq(s, i + 1, i + Len(term)) = term

\* any(term in s for term in terms)
AnyTermIn(terms, s) == \E i \in 1..Len(terms) : Contains(terms[i], s)

----------------------------------------------------------------------------
(* _create_intelligent_fallback: the keyword families and their templates *)

TECH_TERMS ==
    <<
      <<"a","i">>,
      <<"a","r","t","i","f","i","c","i","a","l"," ","i","n","t","e","l","l","i","g","e","n","c","e">>,
      <<"m","a","c","h","i","n","e"," ","l","e","a","r","n","i","n","g">>,
      <<"a","u","t","o","m","a","t","i","o","n">>,
      <<"a","l","g","o","r","i","t","h","m">>,
      <<"d","a","t","a">>,
      <<"s","o","f","t","w","a","r","e">>,
      <<"t","e","c","h">>,
      <<"d","i","g","i","t","a","l">>
    >>
MANAGEMENT_TERMS ==
    <<
      <<"m","a","n","a","g","e","m","e","n","t">>,
      <<"s","t","r","a","t","e","g","y">>,
      <<"l","e","a","d","e","r","s","h","i","p">>,
      <<"b","u","s","i","n","e","s","s">>,
      <<"o","p","e","r","a","t","i","o","n","s">>,
      <<"p","l","a","n","n","i","n","g">>,
      <<"g","r","o","w","t","h">>
    >>
SAFETY_TERMS ==
    <<
      <<"s","a","f","e","t","y">>,
      <<"s","e","c","u","r","i","t","y">>,
      <<"c","o","m","p","l","i","a","n","c","e">>,
      <<"r","i","s","k">>,
      <<"a","u","d","i","t">>,
      <<"q","u","a","l","i","t","y">>
    >>
CUSTOMER_TERMS ==
    <<
      <<"c","u","s","t","o","m","e","r">>,
      <<"s","e","r","v","i","c","e">>,
      <<"s","u","p","p","o","r","t">>,
      <<"c","l","i","e","n","t">>,
      <<"u","s","e","r">>,
      <<"e","x","p","e","r","i","e","n","c","e">>
    >>
FINANCE_TERMS ==
    <<
      <<"f","i","n","a","n","c","i","a","l">>,
      <<"f","i","n","a","n","c","e">>,
      <<"b","u","d","g","e","t">>,
      <<"c","o","s","t">>,
      <<"r","o","i">>,
      <<"i","n","v","e","s","t","m","e","n","t">>,
      <<"a","c","c","o","u","n","t","i","n","g">>
    >>

TECH_PRE ==
    <<
      "P","r","o","f","e","s","s","i","o","n","a","l"," ","t","e","a","m"," ","c","o","l","l",
        "a","b","o","r","a","t","i","n","g"," ","o","n"," "
    >>
TECH_POST ==
    <<
      " ","i","n"," ","m","o","d","e","r","n"," ","o","f","f","i","c","e"," ","e","n","v","i",
        "r","o","n","m","e","n","t","."," ","M","u","l","t","i","p","l","e"," ","s","c","r","e",
        "e","n","s"," ","w","i","t","h"," ","d","a","t","a"," ","v","i","s","u","a","l","i","z",
        "a","t","i","o","n","s",","," ","a","u","t","h","e","n","t","i","c"," ","w","o","r","k",
        "i","n","g"," ","s","e","s","s","i","o","n"," ","w","i","t","h"," ","n","a","t","u","r",
        "a","l"," ","l","i","g","h","t","i","n","g"," ","a","n","d"," ","l","i","v","e","d","-",
        "i","n"," ","d","e","t","a","i","l","s","."
    >>
MANAGEMENT_PRE ==
    <<
      "B","u","s","i","n","e","s","s"," ","p","r","o","f","e","s","s","i","o","n","a","l","s",
        " ","e","n","g","a","g","e","d"," ","i","n"," ","s","t","r","a","t","e","g","i","c"," ",
        "d","i","s","c","u","s","s","i","o","n"," ","a","b","o","u","t"," "
    >>
MANAGEMENT_POST ==
    <<
      "."," ","C","o","n","f","e","r","e","n","c","e"," ","r","o","o","m"," ","s","e","t","t",
        "i","n","g"," ","w","i","t","h"," ","w","h","i","t","e","b","o","a","r","d","s",","," ",
        "d","o","c","u","m","e","n","t","s",","," ","a","n","d"," ","a","u","t","h","e","n","t",
        "i","c"," ","d","e","c","i","s","i","o","n","-","m","a","k","i","n","g"," ","a","t","m",
        "o","s","p","h","e","r","e","."
    >>
SAFETY_PRE == <<"P","r","o","f","e","s","s","i","o","n","a","l"," ","r","e","v","i","e","w","i","n","g"," ">>
SAFETY_POST ==
    <<
      " ","p","r","o","t","o","c","o","l","s"," ","i","n"," ","w","o","r","k","p","l","a","c",
        "e"," ","s","e","t","t","i","n","g","."," ","D","o","c","u","m","e","n","t","a","t","i",
        "o","n",","," ","m","o","n","i","t","o","r","i","n","g"," ","e","q","u","i","p","m","e",
        "n","t",","," ","a","n","d"," ","s","a","f","e","t","y","-","f","o","c","u","s","e","d",
        " ","e","n","v","i","r","o","n","m","e","n","t"," ","w","i","t","h"," ","n","a","t","u",
        "r","a","l"," ","w","o","r","k","f","l","o","w","."
    >>
CUSTOMER_PRE ==
    <<
      "S","e","r","v","i","c","e"," ","p","r","o","f","e","s","s","i","o","n","a","l"," ","e",
        "n","g","a","g","e","d"," ","i","n"," "
    >>
CUSTOMER_POST ==
    <<
      " ","a","c","t","i","v","i","t","i","e","s","."," ","C","u","s","t","o","m","e","r","-",
        "f","a","c","i","n","g"," ","e","n","v","i","r","o","n","m","e","n","t"," ","w","i","t",
        "h"," ","m","o","d","e","r","n"," ","t","o","o","l","s",","," ","a","u","t","h","e","n",
        "t","i","c"," ","s","e","r","v","i","c","e"," ","d","e","l","i","v","e","r","y"," ","m",
        "o","m","e","n","t","."
    >>
FINANCE_PRE ==
    <<
      "F","i","n","a","n","c","e"," ","p","r","o","f","e","s","s","i","o","n","a","l"," ","a",
        "n","a","l","y","z","i","n","g"," "
    >>
FINANCE_POST ==
    <<
      " ","d","a","t","a"," ","a","t"," ","w","o","r","k","s","t","a","t","i","o","n","."," ",
        "M","u","l","t","i","p","l","e"," ","m","o","n","i","t","o","r","s"," ","w","i","t","h",
        " ","c","h","a","r","t","s"," ","a","n","d"," ","r","e","p","o","r","t","s",","," ","t",
        "r","a","d","i","t","i","o","n","a","l"," ","y","e","t"," ","m","o","d","e","r","n"," ",
        "o","f","f","i","c","e"," ","e","n","v","i","r","o","n","m","e","n","t","."
    >>
GENERIC_PRE ==
    <<
      "P","r","o","f","e","s","s","i","o","n","a","l"," ","t","e","a","m"," ","w","o","r","k",
        "i","n","g"," ","o","n"," "
    >>
GENERIC_POST ==
    <<
      " ","p","r","o","j","e","c","t"," ","i","n"," ","c","o","n","t","e","m","p","o","r","a",
        "r","y"," ","w","o","r","k","p","l","a","c","e","."," ","C","o","l","l","a","b","o","r",
        "a","t","i","v","e"," ","e","n","v","i","r","o","n","m","e","n","t"," ","w","i","t","h",
        " ","m","o","d","e","r","n"," ","t","o","o","l","s",","," ","a","u","t","h","e","n","t",
        "i","c"," ","w","o","r","k"," ","s","e","s","s","i","o","n"," ","w","i","t","h"," ","n",
        "a","t","u","r","a","l"," ","l","i","g","h","t","i","n","g"," ","a","n","d"," ","p","e",
        "r","s","o","n","a","l"," ","t","o","u","c","h","e","s","."
    >>

TechScene(keyword) == TECH_PRE \o keyword \o TECH_POST
ManagementScene(keyword) == MANAGEMENT_PRE \o keyword \o MANAGEMENT_POST
SafetyScene(keyword) == SAFETY_PRE \o keyword \o SAFETY_POST
CustomerScene(keyword) == CUSTOMER_PRE \o keyword \o CUSTOMER_POST
FinanceScene(keyword) == FINANCE_PRE \o keyword \o FINANCE_POST
GenericScene(keyword) == GENERIC_PRE \o keyword \o GENERIC_POST

\* A faulty variant: the management family is tested before the tech family.
FallbackManagementFirst(keyword, industry) ==
    LET keyword_lower == str_lower(keyword) IN
    IF AnyTermIn(MANAGEMENT_TERMS, keyword_lower) THEN ManagementScene(keyword)
    ELSE IF AnyTermIn(TECH_TERMS, keyword_lower) THEN TechScene(keyword)
    ELSE IF AnyTermIn(SAFETY_TERMS, keyword_lower) THEN SafetyScene(keyword)
    ELSE IF AnyTermIn(CUSTOMER_TERMS, keyword_lower) THEN CustomerScene(keyword)
    ELSE IF AnyTermIn(FINANCE_TERMS, keyword_lower) THEN FinanceScene(keyword)
    ELSE GenericScene(keyword)

\* A faulty variant: "iot" and "computing" count as tech terms.
FallbackWiderTech(keyword, industry) ==
    LET keyword_lower == str_lower(keyword) IN
    IF \/ AnyTermIn(TECH_TERMS, keyword_lower)
       \/ Contains(<<"i","o","t">>, keyword_lower)
       \/ Contains(<<"c","o","m","p","u","t","i","n","g">>, keyword_lower)
    THEN TechScene(keyword)
    ELSE IF AnyTermIn(MANAGEMENT_TERMS, keyword_lower) THEN ManagementScene(keyword)
    ELSE IF AnyTermIn(SAFETY_TERMS, keyword_lower) THEN SafetyScene(keyword)
    ELSE IF AnyTermIn(CUSTOMER_TERMS, keyword_lower) THEN CustomerScene(keyword)
    ELSE IF AnyTermIn(FINANCE_TERMS, keyword_lower) THEN FinanceScene(keyword)
    ELSE GenericScene(keyword)

_create_intelligent_fallback(keyword, industry) ==
    LET keyword_lower == str_lower(keyword) IN
    IF AnyTermIn(TECH_TERMS, keyword_lower) THEN TechScene(keyword)
    ELSE IF AnyTermIn(MANAGEMENT_TERMS, keyword_lower) THEN ManagementScene(keyword)
    ELSE IF AnyTermIn(SAFETY_TERMS, keyword_lower) THEN SafetyScene(keyword)
    ELSE IF AnyTermIn(CUSTOMER_TERMS, keyword_lower) THEN CustomerScene(keyword)
    ELSE IF AnyTermIn(FINANCE_TERMS, keyword_lower) THEN FinanceScene(keyword)
    ELSE GenericScene(keyword)

----------------------------------------------------------------------------
(* Data model (src/src/models/data_models.py) *)

CompanyData(name, industry, custom_prompt_instructions) ==
    [name |-> name, industry |-> industry, language |-> <<"e","n">>,
     custom_prompt_instructions |-> custom_prompt_instructions]

ImageRequest(headline, keyword, company_data) ==
    [headline |-> headline, keyword |-> keyword, company_data |-> company_data]

\* ImageResponse(success=...) with every other field at its default
ImageResponseDefaults(success) ==
    [success |-> success, image_url |-> <<>>, image_data |-> None, alt_text |-> <<>>,
     generation_time_seconds |-> 0, error |-> None, prompt_used |-> None,
     scene_description |-> None]

----------------------------------------------------------------------------
(* _generate_alt_text *)

ALT_PREFIX ==
    <<
      "P","r","o","f","e","s","s","i","o","n","a","l"," ","e","d","i","t","o","r","i","a","l",
        " ","i","m","a","g","e",":"," "
    >>
ELLIPSIS == <<".",".",".">>

AltMaxLen == 125
AltKeep == 122

\* A faulty variant: the cap is applied to the headline instead of to the whole alt text.
AltTextCapsHeadline(req) ==
    LET alt_text == ALT_PREFIX \o req.headline IN
    IF Len(req.headline) > AltMaxLen THEN Take(alt_text, AltKeep) \o ELLIPSIS ELSE alt_text

_generate_alt_text(req) ==
    LET alt_text == ALT_PREFIX \o req.headline IN
    IF Len(alt_text) > AltMaxLen THEN Take(alt_text, AltKeep) \o ELLIPSIS ELSE alt_text

----------------------------------------------------------------------------
(* _extract_image_from_response                                            *)
(* A response is an Optional record [has_candidates, candidates]; the      *)
(* candidates are an Optional list (None is a value that cannot be         *)
(* iterated: the for statement raises TypeError, which line 297 catches).  *)
(* A candidate is [has_parts, parts] with the same Optional list of parts; *)
(* has_parts is FALSE when the candidate has no content or its content has *)
(* no parts attribute.  A part is [has_data, is_bytes, data]: has_data is  *)
(* FALSE when it has no inline_data or that has no data attribute.         *)

JPEG_MAGIC == <<255, 216, 255>>
PNG_MAGIC == <<137, 80, 78, 71, 13, 10, 26, 10>>

MinImageLen == 100

Candidate(has_parts, parts) == [has_parts |-> has_parts, parts |-> parts]
Part(has_data, is_bytes, data) == [has_data |-> has_data, is_bytes |-> is_bytes, data |-> data]
ApiResponse(has_candidates, candidates) ==
    Some([has_candidates |-> has_candidates, candidates |-> candidates])

\* A faulty variant: the size test is >= instead of >.
AcceptsAtLeastMin(part) ==
    /\ part.has_data
    /\ part.is_bytes
    /\ Len(part.data) >= MinImageLen
    /\ \/ Take(part.data, Len(JPEG_MAGIC)) = JPEG_MAGIC
       \/ Take(part.data, Len(PNG_MAGIC)) = PNG_MAGIC

\* A faulty variant: the signature is not checked.
AcceptsAnySignature(part) ==
    /\ part.has_data
    /\ part.is_bytes
    /\ Len(part.data) > MinImageLen

\* lines 285-292: the part carries an image that is returned
AcceptsPart(part) ==
    /\ part.has_data
    /\ part.is_bytes
    /\ Len(part.data) > MinImageLen
    /\ \/ Take(part.data, Len(JPEG_MAGIC)) = JPEG_MAGIC
       \/ Take(part.data, Len(PNG_MAGIC)) = PNG_MAGIC

\* the inner for loop: the first accepted part of a list, or None
FirstAcceptedPart(parts) ==
    IF \E j \in 1..Len(parts) : AcceptsPart(parts[j])
    THEN Some(parts[CHOOSE j \in 1..Len(parts) :
                      /\ AcceptsPart(parts[j])
                      /\ \A k \in 1..(j - 1) : ~AcceptsPart(parts[k])].data)
    ELSE None

\* the outer for loop from candidate i on; a parts value that cannot be
\* iterated raises, and the handler at line 297 returns None
RECURSIVE ExtractFrom(_, _)
ExtractFrom(candidates, i) ==
    IF i > Len(candidates) THEN None
    ELSE LET candidate == candidates[i] IN
         IF ~candidate.has_parts THEN ExtractFrom(candidates, i + 1)
         ELSE IF candidate.parts = None THEN None
         ELSE LET found == FirstAcceptedPart(candidate.parts[1]) IN
              IF found # None THEN found ELSE ExtractFrom(candidates, i + 1)

_extract_image_from_response(response) ==
    IF response = None \/ ~response[1].has_candidates THEN None
    ELSE IF response[1].candidates = None THEN None
    ELSE ExtractFrom(response[1].candidates[1], 1)

----------------------------------------------------------------------------
(* base64.b64encode and the data URI of the success response *)

B64Alpha ==
    <<
      "A","B","C","D","E","F","G","H","I","J","K","L","M","N","O","P","Q","R","S","T","U","V",
        "W","X","Y","Z","a","b","c","d","e","f","g","h","i","j","k","l","m","n","o","p","q","r",
        "s","t","u","v","w","x","y","z","0","1","2","3","4","5","6","7","8","9","+","/"
    >>
DATA_URI_PREFIX == <<"d","a","t","a",":","i","m","a","g","e","/","j","p","e","g",";","b","a","s","e","6","4",",">>

b64encode(data) ==
    LET n == Len(data)
        byte(i) == IF i <= n THEN data[i] ELSE 0
        group(g) == byte(3 * g + 1) * 65536 + byte(3 * g + 2) * 256 + byte(3 * g + 3)
        sextet(g, p) ==
            CASE p = 0 -> group(g) \div 262144
              [] p = 1 -> (group(g) \div 4096) % 64
              [] p = 2 -> (group(g) \div 64) % 64
              [] OTHER -> group(g) % 64
        char(k) ==
            LET g == (k - 1) \div 4
                p == (k - 1) % 4
            IN IF p > n - 3 * g THEN "=" ELSE B64Alpha[sextet(g, p) + 1]
    IN [k \in 1..(4 * ((n + 2) \div 3)) |-> char(k)]

----------------------------------------------------------------------------
(* _generate_intelligent_scene                                             *)
(* The text endpoint's behaviour is [raises, exc, response]: it raises     *)
(* exc, or returns response, an Optional record [text] whose text is an    *)
(* Optional[str].                                                          *)

WHITESPACE == {" ", "\t", "\n", "\r", "\f"}

SceneMaxLen == 200

\* s.strip(chars)
Strip(s, chars) ==
    LET keep == {i \in 1..Len(s) : s[i] \notin chars} IN
    IF keep = {} THEN <<>>
    ELSE SubSeq(s, CHOOSE i \in keep : \A j \in keep : i <= j,
                   CHOOSE i \in keep : \A j \in keep : i >= j)

\* s.rsplit(sep, 1)[0]
RSplitHead(s, sep) ==
    LET at == {i \in 1..Len(s) : s[i] = sep} IN
    IF at = {} THEN s
    ELSE SubSeq(s, 1, (CHOOSE i \in at : \A j \in at : i >= j) - 1)

\* lines 160-165: the text is usable
TextIsUsed(text_call) ==
    /\ ~text_call.raises
    /\ text_call.response # None
    /\ text_call.response[1].text # None
    /\ text_call.response[1].text[1] # <<>>

\* lines 161-165
NormalizeScene(text) ==
    LET scene_desc == Strip(Strip(Strip(text, WHITESPACE), {"\""}), {"'"}) IN
    IF Len(scene_desc) > SceneMaxLen
    THEN RSplitHead(Take(scene_desc, SceneMaxLen), ".") \o <<".">>
    ELSE scene_desc

_generate_intelligent_scene(keyword, industry, text_call) ==
    IF TextIsUsed(text_call)
    THEN NormalizeScene(text_call.response[1].text[1])
    ELSE _create_intelligent_fallback(keyword, industry)

----------------------------------------------------------------------------
(* _build_professional_prompt *)

FRAME_PRE ==
    <<
      "P","r","o","f","e","s","s","i","o","n","a","l"," ","e","d","i","t","o","r","i","a","l",
        " ","p","h","o","t","o","g","r","a","p","h"," ","f","o","r"," ","a"," ","b","u","s","i",
        "n","e","s","s"," ","a","r","t","i","c","l","e"," ","a","b","o","u","t"," ","'"
    >>
FRAME_POST == <<"'",".">>
SCENE_PRE == <<"S","c","e","n","e",":"," ">>
STYLE_LINES ==
    <<
      <<"P","h","o","t","o","g","r","a","p","h","y"," ","s","t","y","l","e",":">>,
      <<"-"," ","P","r","o","f","e","s","s","i","o","n","a","l"," ","e","d","i","t","o","r","i","a","l"," ","q","u","a","l","i","t","y"," ","(","C","a","n","o","n"," ","5","D"," ","M","a","r","k"," ","I","V",","," ","3","5","m","m"," ","f","/","2",".","8",")">>,
      <<"-"," ","N","a","t","u","r","a","l"," ","l","i","g","h","t","i","n","g"," ","w","i","t","h"," ","s","o","f","t"," ","s","h","a","d","o","w","s",","," ","n","o","t"," ","h","a","r","s","h"," ","o","r"," ","u","n","i","f","o","r","m">>,
      <<"-"," ","R","u","l","e"," ","o","f"," ","t","h","i","r","d","s"," ","c","o","m","p","o","s","i","t","i","o","n",","," ","a","u","t","h","e","n","t","i","c"," ","d","o","c","u","m","e","n","t","a","r","y"," ","s","t","y","l","e">>,
      <<"-"," ","S","h","a","l","l","o","w"," ","d","e","p","t","h"," ","o","f"," ","f","i","e","l","d"," ","w","i","t","h"," ","n","a","t","u","r","a","l"," ","b","a","c","k","g","r","o","u","n","d"," ","b","l","u","r">>,
      <<"-"," ","M","o","d","e","r","n"," ","c","o","l","o","r"," ","g","r","a","d","i","n","g"," ","w","i","t","h"," ","p","r","o","f","e","s","s","i","o","n","a","l"," ","w","a","r","m","t","h">>,
      <<"-"," ","S","u","b","t","l","e"," ","f","i","l","m"," ","g","r","a","i","n"," ","f","o","r"," ","a","u","t","h","e","n","t","i","c","i","t","y">>
    >>
EDITORIAL_LINES ==
    <<
      <<"E","d","i","t","o","r","i","a","l"," ","r","e","q","u","i","r","e","m","e","n","t","s",":">>,
      <<"-"," ","C","a","n","d","i","d",","," ","a","u","t","h","e","n","t","i","c"," ","m","o","m","e","n","t"," ","-"," ","n","o","t"," ","p","o","s","e","d"," ","o","r"," ","s","t","o","c","k","-","p","h","o","t","o","-","l","i","k","e">>,
      <<"-"," ","R","e","a","l"," ","w","o","r","k","p","l","a","c","e"," ","e","n","v","i","r","o","n","m","e","n","t"," ","w","i","t","h"," ","n","a","t","u","r","a","l"," ","d","e","t","a","i","l","s">>,
      <<"-"," ","P","r","o","f","e","s","s","i","o","n","a","l"," ","b","u","t"," ","a","p","p","r","o","a","c","h","a","b","l","e"," ","a","t","m","o","s","p","h","e","r","e">>,
      <<"-"," ","N","o"," ","t","e","x","t",","," ","l","o","g","o","s",","," ","o","r"," ","b","r","a","n","d","i","n","g"," ","v","i","s","i","b","l","e"," ","i","n"," ","i","m","a","g","e">>,
      <<"-"," ","D","i","v","e","r","s","e"," ","a","n","d"," ","i","n","c","l","u","s","i","v","e"," ","r","e","p","r","e","s","e","n","t","a","t","i","o","n"," ","w","h","e","n"," ","p","e","o","p","l","e"," ","a","r","e"," ","s","h","o","w","n">>
    >>
TECHNICAL_LINES ==
    <<
      <<"T","e","c","h","n","i","c","a","l"," ","s","p","e","c","s",":"," ","1","6",":","9"," ","l","a","n","d","s","c","a","p","e",","," ","h","i","g","h"," ","r","e","s","o","l","u","t","i","o","n",","," ","e","d","i","t","o","r","i","a","l"," ","q","u","a","l","i","t","y">>,
      <<"S","t","y","l","e"," ","r","e","f","e","r","e","n","c","e",":"," ","B","l","o","o","m","b","e","r","g"," ","B","u","s","i","n","e","s","s","w","e","e","k",","," ","H","a","r","v","a","r","d"," ","B","u","s","i","n","e","s","s"," ","R","e","v","i","e","w">>
    >>
ADDITIONAL_PRE ==
    <<
      "A","d","d","i","t","i","o","n","a","l"," ","r","e","q","u","i","r","e","m","e","n","t",
        "s",":"," "
    >>

\* "\n".join(parts)
RECURSIVE JoinLines(_)
JoinLines(parts) ==
    IF parts = <<>> THEN <<>>
    ELSE IF Len(parts) = 1 THEN parts[1]
    ELSE parts[1] \o <<"\n">> \o JoinLines(Tail(parts))

\* Python truth value of an Optional[str]
Truthy(opt) == opt # None /\ opt[1] # <<>>

\* A faulty variant: the custom instructions are tested with "is not None".
PromptPartsWhenNotNone(req, scene) ==
    << FRAME_PRE \o req.keyword \o FRAME_POST, <<>>, SCENE_PRE \o scene, <<>> >>
    \o STYLE_LINES \o << <<>> >> \o EDITORIAL_LINES \o << <<>> >> \o TECHNICAL_LINES
    \o (IF req.company_data.custom_prompt_instructions # None
        THEN << <<>>, ADDITIONAL_PRE \o req.company_data.custom_prompt_instructions[1] >>
        ELSE <<>>)

\* lines 203-236: prompt_parts
PromptParts(req, scene) ==
    << FRAME_PRE \o req.keyword \o FRAME_POST, <<>>, SCENE_PRE \o scene, <<>> >>
    \o STYLE_LINES \o << <<>> >> \o EDITORIAL_LINES \o << <<>> >> \o TECHNICAL_LINES
    \o (IF Truthy(req.company_data.custom_prompt_instructions)
        THEN << <<>>, ADDITIONAL_PRE \o req.company_data.custom_prompt_instructions[1] >>
        ELSE <<>>)

_build_professional_prompt(req, scene) == JoinLines(PromptParts(req, scene))

----------------------------------------------------------------------------
(* __init__ and _get_api_key                                               *)
(* The generator object is [api_key, client]: api_key an Optional[str],    *)
(* client the Optional transport client.  The environment is a record of   *)
(* the three variables, each an Optional[str] (None when unset).           *)

MISSING_KEY ==
    <<
      "G","o","o","g","l","e"," ","A","P","I"," ","k","e","y"," ","r","e","q","u","i","r","e",
        "d","."," ","S","e","t"," ","G","O","O","G","L","E","_","A","P","I","_","K","E","Y"," ",
        "e","n","v","i","r","o","n","m","e","n","t"," ","v","a","r","i","a","b","l","e"," ","o",
        "r"," ","p","a","s","s"," ","a","p","i","_","k","e","y"," ","p","a","r","a","m","e","t",
        "e","r","."
    >>
MISSING_PACKAGE ==
    <<
      "g","o","o","g","l","e","-","g","e","n","a","i"," ","p","a","c","k","a","g","e"," ","r",
        "e","q","u","i","r","e","d","."," ","I","n","s","t","a","l","l"," ","w","i","t","h",":",
        " ","p","i","p"," ","i","n","s","t","a","l","l"," ","g","o","o","g","l","e","-","g","e",
        "n","a","i"
    >>

Generator(api_key, client) == [api_key |-> api_key, client |-> client]

\* the object before __init__ has assigned anything
NewObject == Generator(None, None)

\* genai.Client(api_key=..., http_options=HttpOptions(api_version='v1alpha'))
Client(api_key) == [api_key |-> api_key, api_version |-> "v1alpha"]

\* a or b, of two Optional[str]
PyOr(a, b) == IF Truthy(a) THEN a ELSE b

\* A faulty variant: GEMINI_API_KEY is read before GOOGLE_API_KEY.
GetApiKeyGeminiFirst(environ) ==
    PyOr(environ.GEMINI_API_KEY, PyOr(environ.GOOGLE_API_KEY, environ.GOOGLE_GEMINI_API_KEY))

_get_api_key(environ) ==
    PyOr(environ.GOOGLE_API_KEY, PyOr(environ.GEMINI_API_KEY, environ.GOOGLE_GEMINI_API_KEY))

\* line 46: the value assigned to self.api_key
ResolvedApiKey(api_key, environ) == PyOr(api_key, _get_api_key(environ))

----------------------------------------------------------------------------
(* _generate_with_retry and generate_image                                 *)
(* The image endpoint's behaviour at one attempt is [raises, exc,          *)
(* response]: it raises exc (an Exception) or returns response.            *)

max_retries == 3
BackoffFactor == 5

FAILED_AFTER_RETRIES ==
    <<
      "F","a","i","l","e","d"," ","t","o"," ","g","e","n","e","r","a","t","e"," ","i","m","a",
        "g","e"," ","a","f","t","e","r"," ","r","e","t","r","i","e","s"
    >>

\* str(e)
str(e) == e.msg

NoException == [msg |-> <<>>]

\* A faulty variant: the wait is computed from the 0-based loop variable.
SleepZeroBased(n) == BackoffFactor * n

\* lines 263 and 268: time.sleep(5 * (attempt + 1))
SleepFor(n) == BackoffFactor * (n + 1)

\* A faulty variant: an exception of the last attempt is swallowed like a missing image.
RetryAttemptSwallowsLast(n, image_call) ==
    IF image_call.raises
    THEN [then |-> "sleep", image_bytes |-> None, exc |-> image_call.exc]
    ELSE LET image_bytes == _extract_image_from_response(image_call.response) IN
         IF Truthy(image_bytes)
         THEN [then |-> "return", image_bytes |-> image_bytes, exc |-> NoException]
         ELSE [then |-> "sleep", image_bytes |-> None, exc |-> NoException]

\* A faulty variant: a valid image does not end the loop.
RetryAttemptKeepsGoing(n, image_call) ==
    IF image_call.raises
    THEN IF n < max_retries - 1
         THEN [then |-> "sleep", image_bytes |-> None, exc |-> image_call.exc]
         ELSE [then |-> "raise", image_bytes |-> None, exc |-> image_call.exc]
    ELSE [then |-> "sleep", image_bytes |-> None, exc |-> NoException]

\* One iteration of the loop of _generate_with_retry (lines 245-270) with
\* loop variable n: return the image, sleep and go on, or raise.
RetryAttempt(n, image_call) ==
    IF image_call.raises
    THEN IF n < max_retries - 1
         THEN [then |-> "sleep", image_bytes |-> None, exc |-> image_call.exc]
         ELSE [then |-> "raise", image_bytes |-> None, exc |-> image_call.exc]
    ELSE LET image_bytes == _extract_image_from_response(image_call.response) IN
         IF Truthy(image_bytes)
         THEN [then |-> "return", image_bytes |-> image_bytes, exc |-> NoException]
         ELSE [then |-> "sleep", image_bytes |-> None, exc |-> NoException]

\* How _generate_with_retry ended: raised exc, or returned value.
RetryEnd(raised, exc, value) == [raised |-> raised, exc |-> exc, value |-> value]

\* How generate_image ended: raised exc, or returned response.
Returned(response) == [raised |-> FALSE, exc |-> NoException, response |-> response]
Raised(exc) == [raised |-> TRUE, exc |-> exc, response |-> ImageResponseDefaults(FALSE)]

\* lines 101-109
SuccessResponse(req, scene, prompt_used, image_data, elapsed) ==
    [ImageResponseDefaults(TRUE) EXCEPT
        !.image_data = Some(image_data),
        !.image_url = DATA_URI_PREFIX \o b64encode(image_data),
        !.alt_text = _generate_alt_text(req),
        !.generation_time_seconds = elapsed,
        !.prompt_used = Some(prompt_used),
        !.scene_description = Some(scene)]

\* lines 111-115 and 119-123
FailureResponse(error, elapsed) ==
    [ImageResponseDefaults(FALSE) EXCEPT
        !.error = Some(error),
        !.generation_time_seconds = elapsed]

\* A faulty variant: generate_image without its except clause.
FacadeWithoutHandler(req, scene, prompt_used, retry_end, elapsed) ==
    IF retry_end.raised THEN Raised(retry_end.exc)
    ELSE IF Truthy(retry_end.value)
    THEN Returned(SuccessResponse(req, scene, prompt_used, retry_end.value[1], elapsed))
    ELSE Returned(FailureResponse(FAILED_AFTER_RETRIES, elapsed))

\* lines 96-123: what generate_image does with the end of _generate_with_retry
Facade(req, scene, prompt_used, retry_end, elapsed) ==
    IF retry_end.raised THEN Returned(FailureResponse(str(retry_end.exc), elapsed))
    ELSE IF Truthy(retry_end.value)
    THEN Returned(SuccessResponse(req, scene, prompt_used, retry_end.value[1], elapsed))
    ELSE Returned(FailureResponse(FAILED_AFTER_RETRIES, elapsed))

----------------------------------------------------------------------------
(* The inputs *)

MaxHeadline == 130
MaxWords == 2
MaxCandidates == 2
MaxParts == 2

SeqsUpTo(S, n) == UNION {[1..k -> S] : k \in 0..n}

\* bytes of the given size that start with head
Bytes(head, size) == head \o Rep(0, size - Len(head))

EDGE_HEADLINE ==
    <<
      "E","d","g","e"," ","C","o","m","p","u","t","i","n","g"," ","R","e","v","o","l","u","t",
        "i","o","n"
    >>
EDGE_KEYWORD ==
    <<
      "e","d","g","e"," ","c","o","m","p","u","t","i","n","g"," ","I","o","T"," ","d","i","s",
        "t","r","i","b","u","t","e","d"," ","s","y","s","t","e","m","s"
    >>
EDGE_COMPANY == <<"E","d","g","e","T","e","c","h"," ","S","o","l","u","t","i","o","n","s">>
EDGE_INDUSTRY == <<"C","o","m","p","u","t","i","n","g"," ","I","n","f","r","a","s","t","r","u","c","t","u","r","e">>
INCLUSIVE_HEADLINE ==
    <<
      "I","n","c","l","u","s","i","v","e"," ","L","e","a","d","e","r","s","h","i","p"," ","i",
        "n"," ","A","I"," ","D","e","v","e","l","o","p","m","e","n","t"
    >>
INCLUSIVE_KEYWORD ==
    <<
      "d","i","v","e","r","s","e"," ","A","I"," ","t","e","a","m"," ","l","e","a","d","e","r",
        "s","h","i","p"," ","i","n","c","l","u","s","i","v","e"," ","t","e","c","h","n","o","l",
        "o","g","y"
    >>
INCLUSIVE_COMPANY == <<"D","i","v","e","r","s","e","T","e","c","h">>
INCLUSIVE_INDUSTRY == <<"T","e","c","h","n","o","l","o","g","y">>
INCLUSIVE_CUSTOM ==
    <<
      "F","o","c","u","s"," ","o","n"," ","d","i","v","e","r","s","e"," ","p","r","o","f","e",
        "s","s","i","o","n","a","l","s"," ","i","n","c","l","u","d","i","n","g"," ","w","o","m",
        "e","n"," ","a","n","d"," ","m","i","n","o","r","i","t","i","e","s"," ","i","n"," ","l",
        "e","a","d","e","r","s","h","i","p"," ","r","o","l","e","s",","," ","m","o","d","e","r",
        "n"," ","s","u","s","t","a","i","n","a","b","l","e"," ","o","f","f","i","c","e"," ","e",
        "n","v","i","r","o","n","m","e","n","t"
    >>
RISK_KEYWORD == <<"R","i","s","k"," ","M","a","n","a","g","e","m","e","n","t">>
RISK_COMPANY == <<"A","c","m","e">>
RISK_INDUSTRY == <<"I","n","s","u","r","a","n","c","e">>

EdgeRequest ==
    ImageRequest(EDGE_HEADLINE, EDGE_KEYWORD, CompanyData(EDGE_COMPANY, EDGE_INDUSTRY, None))

\* the requests of the calls of generate_image
Requests ==
    { EdgeRequest,
      ImageRequest(INCLUSIVE_HEADLINE, INCLUSIVE_KEYWORD,
                   CompanyData(INCLUSIVE_COMPANY, INCLUSIVE_INDUSTRY, Some(INCLUSIVE_CUSTOM))),
      ImageRequest(Rep("h", AltMaxLen - Len(ALT_PREFIX) + 1), RISK_KEYWORD,
                   CompanyData(RISK_COMPANY, RISK_INDUSTRY, Some(<<>>))) }

BOOM == <<"5","0","3"," ","s","e","r","v","i","c","e"," ","u","n","a","v","a","i","l","a","b","l","e">>
QUOTA == <<"q","u","o","t","a"," ","e","x","c","e","e","d","e","d">>
ORDINARY_TEXT ==
    <<
      " "," ","\"","E","n","g","i","n","e","e","r","s"," ","r","e","v","i","e","w","i","n","g",
        " ","s","e","n","s","o","r"," ","d","a","s","h","b","o","a","r","d","s"," ","b","e","s",
        "i","d","e"," ","a"," ","s","e","r","v","e","r"," ","r","a","c","k","."," ","C","a","b",
        "l","e","s"," ","a","n","d"," ","c","o","f","f","e","e"," ","c","u","p","s"," ","a","r",
        "o","u","n","d",".","\"","\n"
    >>
QUOTES_ONLY == <<"\"","\"">>
BLANK_TEXT == <<" "," ","\n">>

TextRaises(m) == [raises |-> TRUE, exc |-> [msg |-> m], response |-> None]
TextReturns(response) == [raises |-> FALSE, exc |-> NoException, response |-> response]
TextOf(text) == TextReturns(Some([text |-> Some(text)]))

\* the behaviours of the text endpoint
TextCalls ==
    { TextRaises(BOOM), TextReturns(None), TextReturns(Some([text |-> None])), TextOf(<<>>),
      TextOf(QUOTES_ONLY), TextOf(BLANK_TEXT), TextOf(ORDINARY_TEXT),
      TextOf(Rep("a", SceneMaxLen + 5)),
      TextOf(Rep("a", 50) \o <<".">> \o Rep("b", SceneMaxLen)) }

ImageRaises(m) == [raises |-> TRUE, exc |-> [msg |-> m], response |-> None]
ImageReturns(response) == [raises |-> FALSE, exc |-> NoException, response |-> response]
OnePart(part) == ApiResponse(TRUE, Some(<< Candidate(TRUE, Some(<<part>>)) >>))

JpegPart == Part(TRUE, TRUE, Bytes(JPEG_MAGIC, MinImageLen + 1))
PngPart == Part(TRUE, TRUE, Bytes(PNG_MAGIC, MinImageLen + 2))
GifPart == Part(TRUE, TRUE, Bytes(<<71, 73, 70, 56>>, MinImageLen + 1))

\* the behaviours of the image endpoint at one attempt
ImageCalls ==
    { ImageRaises(BOOM), ImageRaises(QUOTA), ImageRaises(<<>>), ImageReturns(None),
      ImageReturns(OnePart(JpegPart)), ImageReturns(OnePart(PngPart)),
      ImageReturns(OnePart(GifPart)),
      ImageReturns(OnePart(Part(TRUE, TRUE, Bytes(JPEG_MAGIC, MinImageLen)))) }

\* the headlines _generate_alt_text is applied to
Headlines == {Rep(c, n) : c \in {"h", "."}, n \in 0..MaxHeadline}

Words ==
    <<
      <<"A","I">>,
      <<"D","a","t","a">>,
      <<"r","e","t","a","i","l">>,
      <<"S","t","r","a","t","e","g","y">>,
      <<"g","r","o","w","t","h">>,
      <<"R","i","s","k">>,
      <<"a","u","d","i","t">>,
      <<"c","l","i","e","n","t">>,
      <<"R","O","I">>,
      <<"c","o","s","t">>,
      <<"f","a","r","m","i","n","g">>,
      <<"e","d","g","e">>
    >>

RECURSIVE JoinWords(_)
JoinWords(ws) ==
    IF ws = <<>> THEN <<>>
    ELSE IF Len(ws) = 1 THEN ws[1]
    ELSE ws[1] \o <<" ">> \o JoinWords(Tail(ws))

\* the keywords _create_intelligent_fallback is applied to
Keywords ==
    {JoinWords(ws) : ws \in SeqsUpTo({Words[i] : i \in 1..Len(Words)}, MaxWords)}
    \cup {EDGE_KEYWORD, INCLUSIVE_KEYWORD, RISK_KEYWORD}

Heads ==
    { JPEG_MAGIC, PNG_MAGIC, <<255, 216, 0>>, <<137, 80, 78, 71, 0, 0, 0, 0>>,
      <<71, 73, 70, 56>>, <<>> }

PayloadParts ==
    {Part(TRUE, TRUE, Bytes(h, s)) :
        h \in Heads, s \in {Len(PNG_MAGIC), MinImageLen - 1, MinImageLen, MinImageLen + 1}}
    \cup {Part(TRUE, FALSE, Bytes(h, MinImageLen + 1)) : h \in Heads}
    \cup {Part(FALSE, FALSE, <<>>)}

Candidates ==
    {Candidate(FALSE, None), Candidate(TRUE, None)}
    \cup {Candidate(TRUE, Some(ps)) : ps \in SeqsUpTo({JpegPart, PngPart, GifPart}, MaxParts)}

\* the responses _extract_image_from_response is applied to
Responses ==
    {None, ApiResponse(FALSE, None), ApiResponse(TRUE, None)}
    \cup {OnePart(p) : p \in PayloadParts}
    \cup {ApiResponse(TRUE, Some(cs)) : cs \in SeqsUpTo(Candidates, MaxCandidates)}

----------------------------------------------------------------------------
(* The calls of generate_image on one generator *)

Event(kind, n, how, call) == [kind |-> kind, n |-> n, how |-> how, call |-> call]

NoCall == [raises |-> FALSE, exc |-> NoException, response |-> None]

\* time.time() - start_time: the time slept so far
RECURSIVE Elapsed(_)
Elapsed(evs) ==
    IF evs = <<>> THEN 0
    ELSE (IF Head(evs).kind = "sleep" THEN Head(evs).n ELSE 0) + Elapsed(Tail(evs))

CONFIGURED_KEY == <<"k","e","y","-","o","f","-","t","h","e","-","g","e","n","e","r","a","t","o","r">>

\* the generator the calls are made on: __init__ has returned
Constructed == Generator(Some(CONFIGURED_KEY), Some(Client(CONFIGURED_KEY)))

MaxCalls == 2

\* the calls of generate_image that may run at the same time
CallIds == 1..MaxCalls

\* the locals of a call of generate_image that has not started
IdleCall ==
    [pc |-> "idle", request |-> None, scene_description |-> None, prompt |-> None,
     attempt |-> 0, events |-> <<>>, retry_result |-> None, result |-> None]

Idle ==
    /\ request = None
    /\ scene_description = None
    /\ prompt = None
    /\ attempt = 0
    /\ events = <<>>
    /\ retry_result = None
    /\ result = None
    /\ generator = Constructed
    /\ calls = [c \in CallIds |-> IdleCall]

Init == pc = "idle" /\ Idle /\ arg = None /\ ret = None

\* generate_image(req) is called
Call(req) ==
    /\ pc = "idle"
    /\ pc' = "scene"
    /\ request' = Some(req)
    /\ UNCHANGED <<scene_description, prompt, attempt, events, retry_result, result, arg, ret,
                   generator, calls>>

\* lines 86-93: the scene is resolved with one call of the text endpoint, and
\* the prompt is built
ResolveScene(text_call) ==
    /\ pc = "scene"
    /\ LET req == request[1]
           scene == _generate_intelligent_scene(req.keyword, req.company_data.industry,
                                                text_call)
       IN /\ scene_description' = Some(scene)
          /\ prompt' = Some(_build_professional_prompt(req, scene))
    /\ events' = Append(events, Event("text", 0,
                                      IF text_call.raises THEN "raise" ELSE "return", text_call))
    /\ attempt' = 0
    /\ pc' = "attempt"
    /\ UNCHANGED <<request, retry_result, result, arg, ret,
                   generator, calls>>

\* generate_image ends with what _generate_with_retry ended with
Finish(retry_end, evs) ==
    /\ retry_result' = Some(retry_end)
    /\ result' = Some(Facade(request[1], scene_description[1], prompt[1], retry_end,
                             Elapsed(evs)))
    /\ pc' = "done"

\* one attempt of _generate_with_retry: one call of the image endpoint
Attempt(image_call) ==
    /\ pc = "attempt"
    /\ LET step == RetryAttempt(attempt, image_call)
           how == IF image_call.raises THEN "raise"
                  ELSE IF step.then = "return" THEN "image" ELSE "no_image"
           evs == Append(events, Event("image", attempt + 1, how, image_call))
       IN /\ events' = evs
          /\ CASE step.then = "return" ->
                    Finish(RetryEnd(FALSE, NoException, step.image_bytes), evs)
               [] step.then = "raise" ->
                    Finish(RetryEnd(TRUE, step.exc, None), evs)
               [] OTHER ->
                    /\ pc' = "sleep"
                    /\ UNCHANGED <<retry_result, result>>
    /\ UNCHANGED <<request, scene_description, prompt, attempt, arg, ret,
                   generator, calls>>

\* time.sleep returns; the loop goes on, or is exhausted and line 272
\* returns None
Sleep ==
    /\ pc = "sleep"
    /\ LET evs == Append(events, Event("sleep", SleepFor(attempt), "sleep", NoCall)) IN
       /\ events' = evs
       /\ attempt' = attempt + 1
       /\ IF attempt + 1 < max_retries
          THEN /\ pc' = "attempt"
               /\ UNCHANGED <<retry_result, result>>
          ELSE Finish(RetryEnd(FALSE, NoException, None), evs)
    /\ UNCHANGED <<request, scene_description, prompt, arg, ret,
                   generator, calls>>

\* the caller has the response; the generator is ready for the next call
Return ==
    /\ pc = "done"
    /\ pc' = "idle"
    /\ request' = None
    /\ scene_description' = None
    /\ prompt' = None
    /\ attempt' = 0
    /\ events' = <<>>
    /\ retry_result' = None
    /\ result' = None
    /\ UNCHANGED <<arg, ret, generator, calls>>

Next ==
    \/ \E req \in Requests : Call(req)
    \/ \E text_call \in TextCalls : ResolveScene(text_call)
    \/ \E image_call \in ImageCalls : Attempt(image_call)
    \/ Sleep
    \/ Return

Spec == Init /\ [][Next]_vars

----------------------------------------------------------------------------
(* The functions applied on their own *)

InitAlt ==
    /\ pc = "alt_call"
    /\ Idle
    /\ arg \in {Some(ImageRequest(h, EDGE_KEYWORD, CompanyData(EDGE_COMPANY, EDGE_INDUSTRY, None))) :
                  h \in Headlines}
    /\ ret = None

ApplyAltText ==
    /\ pc = "alt_call"
    /\ ret' = Some(_generate_alt_text(arg[1]))
    /\ pc' = "alt_return"
    /\ UNCHANGED <<request, scene_description, prompt, attempt, events, retry_result, result, arg,
                   generator, calls>>

SpecAlt == InitAlt /\ [][ApplyAltText]_vars

InitFallback ==
    /\ pc = "fallback_call"
    /\ Idle
    /\ arg \in {Some([keyword |-> k, industry |-> i]) :
                  k \in Keywords, i \in {EDGE_INDUSTRY, RISK_INDUSTRY}}
    /\ ret = None

ApplyFallback ==
    /\ pc = "fallback_call"
    /\ ret' = Some(_create_intelligent_fallback(arg[1].keyword, arg[1].industry))
    /\ pc' = "fallback_return"
    /\ UNCHANGED <<request, scene_description, prompt, attempt, events, retry_result, result, arg,
                   generator, calls>>

SpecFallback == InitFallback /\ [][ApplyFallback]_vars

InitExtract ==
    /\ pc = "extract_call"
    /\ Idle
    /\ arg \in {Some(r) : r \in Responses}
    /\ ret = None

\* ret holds the Optional[bytes] the function returned
ApplyExtract ==
    /\ pc = "extract_call"
    /\ ret' = Some(_extract_image_from_response(arg[1]))
    /\ pc' = "extract_return"
    /\ UNCHANGED <<request, scene_description, prompt, attempt, events, retry_result, result, arg,
                   generator, calls>>

SpecExtract == InitExtract /\ [][ApplyExtract]_vars

----------------------------------------------------------------------------
(* Properties *)

\* the response generate_image returned
Response == result[1].response

\* the attempts of the call, in order
ImageEvents == SelectSeq(events, LAMBDA e : e.kind = "image")

\* the attempts and the waits of the call, in order
RetryEvents == SelectSeq(events, LAMBDA e : e.kind # "text")

Failed(e) == e.kind = "image" /\ e.how \in {"raise", "no_image"}

\* the bytes start with the JPEG or the PNG signature
HasImageSignature(data) ==
    \/ (Len(data) >= 3 /\ data[1] = 255 /\ data[2] = 216 /\ data[3] = 255)
    \/ (Len(data) >= 8 /\ SubSeq(data, 1, 8) = <<137, 80, 78, 71, 13, 10, 26, 10>>)

\* C1 as claimed: generate_image never raises, and whenever an exception was
\* raised inside the pipeline (by the text call or by any image attempt) the
\* response is a failure whose error is that exception's message.
C1_AnyExceptionMakesFailure ==
    pc = "done" =>
        /\ ~result[1].raised
        /\ (\E i \in 1..Len(events) : events[i].how = "raise") =>
              /\ ~Response.success
              /\ \E i \in 1..Len(events) :
                    /\ events[i].how = "raise"
                    /\ Response.error = Some(events[i].call.exc.msg)

\* C1 amended: generate_image never raises and returns an ImageResponse; when
\* an exception leaves the pipeline, which is when the last attempt of the
\* image endpoint raised, the response is a failure whose error is that
\* exception's message.
C1_FacadeIsErrorBoundary ==
    pc = "done" =>
        /\ result # None
        /\ ~result[1].raised
        /\ events[Len(events)].how = "raise" =>
              /\ ~Response.success
              /\ Response.error = Some(events[Len(events)].call.exc.msg)
              /\ Response.image_data = None

C1_Witness ==
    /\ pc = "done"
    /\ events[1].how = "raise"
    /\ events[Len(events)].how = "raise"
    /\ events[1].call.exc # events[Len(events)].call.exc

\* C2: a returned response is a success exactly when it carries non-empty
\* image bytes with a JPEG or PNG signature, and a failure exactly when its
\* error is set; none is partly both.
C2_SuccessIffImage ==
    pc = "done" =>
        /\ Response.success <=>
              /\ Response.image_data # None
              /\ Response.image_data[1] # <<>>
              /\ HasImageSignature(Response.image_data[1])
        /\ ~Response.success <=> Response.error # None
        /\ ~(Response.image_data # None /\ Response.error # None)

C2_Witness ==
    /\ pc = "done"
    /\ Response.success
    /\ SubSeq(Response.image_data[1], 1, 4) = <<137, 80, 78, 71>>
    /\ events[1].how = "raise"

\* C3 as claimed: a wait happens only after a failed attempt n < max_attempts,
\* lasts 5 * n, and is followed by attempt n + 1; after the failure of the
\* last attempt the loop ends without a wait.
C3_WaitOnlyBeforeRetry ==
    \A i \in 1..Len(events) :
        events[i].kind = "sleep" =>
            /\ i > 1
            /\ Failed(events[i - 1])
            /\ events[i - 1].n < max_retries
            /\ events[i].n = 5 * events[i - 1].n
            /\ pc = "done" =>
                  /\ i < Len(events)
                  /\ events[i + 1].kind = "image"
                  /\ events[i + 1].n = events[i - 1].n + 1

\* the image payloads a response of the image endpoint carries
PayloadsOf(response) ==
    IF response = None \/ ~response[1].has_candidates \/ response[1].candidates = None
    THEN {}
    ELSE LET cs == response[1].candidates[1] IN
         UNION {IF cs[i].has_parts /\ cs[i].parts # None
                THEN {cs[i].parts[1][j].data : j \in 1..Len(cs[i].parts[1])}
                ELSE {} : i \in 1..Len(cs)}

\* C4: when the image endpoint fails at attempts 1 and 2 and returns a valid
\* image at attempt 3, the requester returns those bytes, the endpoint was
\* called exactly 3 times, and there were exactly two waits, of 5 and then 10,
\* each between two attempts.
C4_SucceedsAtThirdAttempt ==
    (/\ pc = "done"
     /\ Len(ImageEvents) = 3
     /\ Failed(ImageEvents[1])
     /\ Failed(ImageEvents[2])
     /\ ImageEvents[3].how = "image") =>
        /\ ~retry_result[1].raised
        /\ retry_result[1].value # None
        /\ retry_result[1].value[1] \in PayloadsOf(ImageEvents[3].call.response)
        /\ HasImageSignature(retry_result[1].value[1])
        /\ Response.image_data = retry_result[1].value
        /\ [i \in 1..Len(RetryEvents) |-> <<RetryEvents[i].kind, RetryEvents[i].n>>]
             = << <<"image", 1>>, <<"sleep", 5>>, <<"image", 2>>, <<"sleep", 10>>, <<"image", 3>> >>

C4_Witness ==
    /\ pc = "done"
    /\ Len(ImageEvents) = 3
    /\ ImageEvents[1].how = "raise"
    /\ ImageEvents[2].how = "no_image"
    /\ ImageEvents[3].how = "image"

\* C5: when every attempt failed, the last attempt alone decides the outcome:
\* if it raised, the requester raises that error and the response is a
\* failure with that error's message; if it returned no valid image, the
\* requester returns None without raising and the response is a failure with
\* the fixed error "Failed to generate image after retries".
C5_LastFailureDecides ==
    (/\ pc = "done"
     /\ Len(ImageEvents) = max_retries
     /\ \A i \in 1..max_retries : Failed(ImageEvents[i])) =>
        LET last == ImageEvents[max_retries] IN
        /\ ~result[1].raised
        /\ ~Response.success
        /\ last.how = "raise" =>
              /\ retry_result[1].raised
              /\ retry_result[1].exc = last.call.exc
              /\ Response.error = Some(last.call.exc.msg)
        /\ last.how = "no_image" =>
              /\ ~retry_result[1].raised
              /\ retry_result[1].value = None
              /\ Response.error = Some(FAILED_AFTER_RETRIES)

C5_Witness ==
    /\ pc = "done"
    /\ Len(ImageEvents) = max_retries
    /\ ImageEvents[1].how = "no_image"
    /\ ImageEvents[2].how = "raise"
    /\ ImageEvents[max_retries].how = "raise"
    /\ ImageEvents[2].call.exc # ImageEvents[max_retries].call.exc

\* the places <<candidate, part>> of a response, and the part at a place
Places(response) ==
    IF response = None \/ ~response[1].has_candidates \/ response[1].candidates = None
    THEN {}
    ELSE LET cs == response[1].candidates[1] IN
         UNION {IF cs[i].has_parts /\ cs[i].parts # None
                THEN {<<i, j>> : j \in 1..Len(cs[i].parts[1])}
                ELSE {} : i \in 1..Len(cs)}

PartAt(response, place) == response[1].candidates[1][place[1]].parts[1][place[2]]

\* candidate order, then part order
Before(p, q) == p[1] < q[1] \/ (p[1] = q[1] /\ p[2] <= q[2])

\* a byte payload with an image signature and a size of at least the minimum
AcceptableAtLeast(part) ==
    /\ part.has_data
    /\ part.is_bytes
    /\ HasImageSignature(part.data)
    /\ Len(part.data) >= 100

\* a byte payload with an image signature and a size above the minimum
AcceptableAbove(part) ==
    /\ part.has_data
    /\ part.is_bytes
    /\ HasImageSignature(part.data)
    /\ Len(part.data) > 100

\* the candidates whose parts cannot be iterated
Broken(response) ==
    IF response = None \/ ~response[1].has_candidates \/ response[1].candidates = None
    THEN {}
    ELSE {i \in 1..Len(response[1].candidates[1]) :
            /\ response[1].candidates[1][i].has_parts
            /\ response[1].candidates[1][i].parts = None}

\* C6 as claimed: a payload is accepted exactly when it is bytes with the JPEG
\* or PNG signature and at least 100 bytes; the first accepted payload in
\* candidate order then part order is returned, and None when there is none.
C6_AcceptsAtLeast100 ==
    pc = "extract_return" =>
        LET ok == {p \in Places(arg[1]) : AcceptableAtLeast(PartAt(arg[1], p))} IN
        IF ok = {} THEN ret[1] = None
        ELSE ret[1] = Some(PartAt(arg[1], CHOOSE p \in ok : \A q \in ok : Before(p, q)).data)

\* C6 amended: a payload is accepted exactly when it is bytes with the JPEG or
\* PNG signature and more than 100 bytes; the first accepted payload in
\* candidate order then part order is returned unless a candidate before it
\* holds parts that cannot be iterated, and None is returned otherwise.
C6_AcceptsAbove100 ==
    pc = "extract_return" =>
        LET ok == {p \in Places(arg[1]) : AcceptableAbove(PartAt(arg[1], p))} IN
        IF ok = {} THEN ret[1] = None
        ELSE LET first == CHOOSE p \in ok : \A q \in ok : Before(p, q) IN
             IF \E i \in Broken(arg[1]) : i < first[1]
             THEN ret[1] = None
             ELSE ret[1] = Some(PartAt(arg[1], first).data)

C6_Witness ==
    /\ pc = "extract_return"
    /\ Cardinality({p \in Places(arg[1]) : AcceptableAbove(PartAt(arg[1], p))}) >= 2
    /\ <<1, 1>> \in Places(arg[1])
    /\ ~AcceptableAbove(PartAt(arg[1], <<1, 1>>))
    /\ ret[1] # None
    /\ ret[1][1][1] = 137

\* C7 as claimed: a headline of at most 97 characters gives the prefix
\* followed by the headline; a longer one gives exactly 125 characters that
\* end with "...".
C7_UntruncatedUpTo97 ==
    pc = "alt_return" =>
        IF Len(arg[1].headline) <= 97
        THEN ret[1] = ALT_PREFIX \o arg[1].headline
        ELSE Len(ret[1]) = 125 /\ SubSeq(ret[1], 123, 125) = <<".", ".", ".">>

\* C7 amended: a headline of at most 95 characters gives the prefix followed
\* by the headline; a longer one gives exactly 125 characters that end with
\* "...".
C7_UntruncatedUpTo95 ==
    pc = "alt_return" =>
        IF Len(arg[1].headline) <= 95
        THEN ret[1] = ALT_PREFIX \o arg[1].headline
        ELSE /\ Len(ret[1]) = 125
             /\ SubSeq(ret[1], 123, 125) = <<".", ".", ".">>
             /\ SubSeq(ret[1], 1, 122) = SubSeq(ALT_PREFIX \o arg[1].headline, 1, 122)

C7_Witness ==
    /\ pc = "alt_return"
    /\ Len(arg[1].headline) = 96
    /\ Len(ret[1]) = 125

\* the text endpoint raised or gave no text
NoRemoteText(text_call) ==
    \/ text_call.raises
    \/ text_call.response = None
    \/ text_call.response[1].text = None
    \/ text_call.response[1].text[1] = <<>>

\* C8 as claimed: whatever the text endpoint does, the resolver returns a
\* non-empty scene description, and it is the local fallback whenever the
\* remote call raised or gave no text.
C8_SceneNeverEmpty ==
    scene_description # None =>
        /\ scene_description[1] # <<>>
        /\ NoRemoteText(events[1].call) =>
              scene_description[1] =
                  _create_intelligent_fallback(request[1].keyword,
                                               request[1].company_data.industry)

\* the families whose terms occur in the lower-cased keyword, by priority
Families == <<TECH_TERMS, MANAGEMENT_TERMS, SAFETY_TERMS, CUSTOMER_TERMS, FINANCE_TERMS>>

Matching(keyword) ==
    {f \in 1..Len(Families) :
        \E t \in 1..Len(Families[f]) : Contains(Families[f][t], str_lower(keyword))}

SceneOfFamily(f, keyword) ==
    CASE f = 1 -> TechScene(keyword)
      [] f = 2 -> ManagementScene(keyword)
      [] f = 3 -> SafetyScene(keyword)
      [] f = 4 -> CustomerScene(keyword)
      [] OTHER -> FinanceScene(keyword)

\* C9: the fallback returns the template of the first family, in the order
\* tech, management, safety, customer, finance, one of whose terms occurs in
\* the lower-cased keyword, with the keyword as given substituted, and the
\* generic template when no family matches.
C9_FirstFamilyWins ==
    pc = "fallback_return" =>
        LET keyword == arg[1].keyword
            m == Matching(keyword)
        IN IF m = {} THEN ret[1] = GenericScene(keyword)
           ELSE ret[1] = SceneOfFamily(CHOOSE f \in m : \A g \in m : f <= g, keyword)

C9_Witness ==
    /\ pc = "fallback_return"
    /\ {2, 3} \subseteq Matching(arg[1].keyword)
    /\ 1 \notin Matching(arg[1].keyword)
    /\ arg[1].keyword # str_lower(arg[1].keyword)
    /\ ret[1] = ManagementScene(arg[1].keyword)

\* the edge-computing request, with the text endpoint unavailable
EdgeScenario ==
    /\ request = Some(EdgeRequest)
    /\ scene_description # None
    /\ events[1].call.raises

\* C10 as claimed: in the edge-computing scenario the resolver falls back to
\* the tech template.
C10_EdgeGetsTechScene ==
    EdgeScenario => scene_description[1] = TechScene(EDGE_KEYWORD)

\* C10 amended: in the edge-computing scenario the resolver falls back to the
\* generic template, as no term of any family occurs in the keyword.
C10_EdgeGetsGenericScene ==
    EdgeScenario =>
        /\ scene_description[1] = GenericScene(EDGE_KEYWORD)
        /\ scene_description[1] # TechScene(EDGE_KEYWORD)

C10_Witness == EdgeScenario /\ pc = "attempt"

----------------------------------------------------------------------------
(* _build_professional_prompt applied on its own *)

APOSTROPHE_KEYWORD == <<"t","h","e"," ","b","o","a","r","d","'","s"," ","'","q","u","i","e","t","'"," ","y","e","a","r">>
TWO_LINE_CUSTOM ==
    <<
      "W","a","r","m"," ","t","o","n","e","s",".","\n","A","d","d","i","t","i","o","n","a","l",
        " ","r","e","q","u","i","r","e","m","e","n","t","s",":"," ","n","o"," ","n","e","c","k",
        "t","i","e","s"
    >>
SHORT_SCENE ==
    <<
      "T","w","o"," ","a","u","d","i","t","o","r","s"," ","c","o","m","p","a","r","e"," ","l",
        "e","d","g","e","r","s"," ","a","t"," ","a"," ","s","h","a","r","e","d"," ","d","e","s",
        "k","."," ","R","a","i","n"," ","o","n"," ","t","h","e"," ","w","i","n","d","o","w","."
    >>

\* the keywords, the scene descriptions and the custom instructions the
\* prompt builder is applied to
PromptKeywords == {EDGE_KEYWORD, RISK_KEYWORD, APOSTROPHE_KEYWORD, <<>>}

PromptScenes ==
    { <<>>, SHORT_SCENE, GenericScene(EDGE_KEYWORD), SafetyScene(RISK_KEYWORD),
      Rep("a", SceneMaxLen) \o <<".">> }

PromptCustoms == {None, Some(<<>>), Some(<<" ">>), Some(INCLUSIVE_CUSTOM), Some(TWO_LINE_CUSTOM)}

InitPrompt ==
    /\ pc = "prompt_call"
    /\ Idle
    /\ arg \in {Some([request |-> ImageRequest(EDGE_HEADLINE, k,
                                     CompanyData(EDGE_COMPANY, EDGE_INDUSTRY, c)),
                      scene_description |-> s]) :
                  k \in PromptKeywords, s \in PromptScenes, c \in PromptCustoms}
    /\ ret = None

ApplyPrompt ==
    /\ pc = "prompt_call"
    /\ ret' = Some(_build_professional_prompt(arg[1].request, arg[1].scene_description))
    /\ pc' = "prompt_return"
    /\ UNCHANGED <<request, scene_description, prompt, attempt, events, retry_result, result, arg,
                   generator, calls>>

SpecPrompt == InitPrompt /\ [][ApplyPrompt]_vars

\* s ends with t
EndsWith(s, t) == Len(s) >= Len(t) /\ SubSeq(s, Len(s) - Len(t) + 1, Len(s)) = t

\* s starts with t
StartsWith(s, t) == Len(s) >= Len(t) /\ SubSeq(s, 1, Len(t)) = t

\* the pieces occur in s one after the other, without overlap, from
\* position from on
RECURSIVE InOrder(_, _, _)
InOrder(s, pieces, from) ==
    IF pieces = <<>> THEN TRUE
    ELSE LET p == Head(pieces) IN
         \E i \in from..(Len(s) - Len(p) + 1) :
            /\ SubSeq(s, i, i + Len(p) - 1) = p
            /\ InOrder(s, Tail(pieces), i + Len(p))

\* the lines of a section, each ended by a line feed but the last
RECURSIVE SectionText(_)
SectionText(lines) ==
    IF Len(lines) = 1 THEN lines[1]
    ELSE lines[1] \o <<"\n">> \o SectionText(Tail(lines))

BLANK_LINE == <<"\n", "\n">>

\* the five sections every prompt has, in the order of the claim
FixedSections(req, scene) ==
    << FRAME_PRE \o req.keyword \o FRAME_POST \o BLANK_LINE,
       SCENE_PRE \o scene \o BLANK_LINE,
       SectionText(STYLE_LINES) \o BLANK_LINE,
       SectionText(EDITORIAL_LINES) \o BLANK_LINE,
       SectionText(TECHNICAL_LINES) >>

\* the "Additional requirements" section that carries text
AdditionalSection(text) == BLANK_LINE \o ADDITIONAL_PRE \o text

\* the prompt ends with the technical specs followed by the additional
\* section carrying text
HasAdditionalSection(p, text) ==
    EndsWith(p, SectionText(TECHNICAL_LINES) \o AdditionalSection(text))

CustomOf(req) == req.company_data.custom_prompt_instructions

CustomText(req) == IF CustomOf(req) = None THEN <<>> ELSE CustomOf(req)[1]

\* C11 as claimed: the prompt holds the framing line, the scene, the style,
\* the editorial and the technical sections in this order, and the
\* "Additional requirements" section with the custom instructions is there,
\* as the last section, exactly when custom instructions were supplied on the
\* company data (are not None).
C11_AdditionalIffSupplied ==
    pc = "prompt_return" =>
        LET req == arg[1].request IN
        /\ InOrder(ret[1], FixedSections(req, arg[1].scene_description), 1)
        /\ CustomOf(req) # None <=> HasAdditionalSection(ret[1], CustomText(req))

\* C11 amended: the prompt starts with the framing line and holds the five
\* sections in this order; when the custom instructions are a non-empty
\* string the prompt ends with the "Additional requirements" section that
\* carries them verbatim, and when they are None or the empty string the
\* prompt ends with the technical specs and has no such section after them.
C11_AdditionalIffNonEmpty ==
    pc = "prompt_return" =>
        LET req == arg[1].request
            p == ret[1]
        IN /\ StartsWith(p, FRAME_PRE \o req.keyword \o FRAME_POST)
           /\ InOrder(p, FixedSections(req, arg[1].scene_description), 1)
           /\ IF CustomOf(req) # None /\ CustomOf(req)[1] # <<>>
              THEN HasAdditionalSection(p, CustomOf(req)[1])
              ELSE /\ EndsWith(p, SectionText(TECHNICAL_LINES))
                   /\ ~HasAdditionalSection(p, <<>>)

C11_Witness ==
    /\ pc = "prompt_return"
    /\ CustomOf(arg[1].request) = Some(<<>>)
    /\ EndsWith(ret[1], SectionText(TECHNICAL_LINES))

----------------------------------------------------------------------------
(* The construction of a generator: OpenImagen(api_key) in an environment *)

PARAM_KEY == <<"k","e","y","-","f","r","o","m","-","p","a","r","a","m","e","t","e","r">>
GOOGLE_KEY == <<"k","e","y","-","f","r","o","m","-","G","O","O","G","L","E","_","A","P","I","_","K","E","Y">>
GEMINI_KEY == <<"k","e","y","-","f","r","o","m","-","G","E","M","I","N","I","_","A","P","I","_","K","E","Y">>
GOOGLE_GEMINI_KEY ==
    <<
      "k","e","y","-","f","r","o","m","-","G","O","O","G","L","E","_","G","E","M","I","N","I",
        "_","A","P","I","_","K","E","Y"
    >>

\* os.environ restricted to the three variables
Environs ==
    [GOOGLE_API_KEY : {None, Some(<<>>), Some(GOOGLE_KEY)},
     GEMINI_API_KEY : {None, Some(<<>>), Some(GEMINI_KEY)},
     GOOGLE_GEMINI_API_KEY : {None, Some(<<>>), Some(GOOGLE_GEMINI_KEY)}]

\* the google-genai package: importable and its Client constructs, not
\* installed, or its Client raises
GenaiStates == {"ok", "missing", "raises"}

ConstructorEnd(raised, exc) == [raised |-> raised, exc |-> exc]

InitConstruct ==
    /\ pc = "init_call"
    /\ request = None
    /\ scene_description = None
    /\ prompt = None
    /\ attempt = 0
    /\ events = <<>>
    /\ retry_result = None
    /\ result = None
    /\ generator = NewObject
    /\ calls = [c \in CallIds |-> IdleCall]
    /\ arg \in {Some([api_key |-> k, environ |-> e, genai |-> g]) :
                  k \in {None, Some(<<>>), Some(PARAM_KEY)}, e \in Environs, g \in GenaiStates}
    /\ ret = None

\* lines 46-48: self.api_key is assigned, and ValueError is raised when it
\* is None or empty
ResolveKey ==
    /\ pc = "init_call"
    /\ LET key == ResolvedApiKey(arg[1].api_key, arg[1].environ) IN
       /\ generator' = [generator EXCEPT !.api_key = key]
       /\ IF ~Truthy(key)
          THEN /\ pc' = "init_raised"
               /\ ret' = Some(ConstructorEnd(TRUE, [msg |-> MISSING_KEY]))
          ELSE /\ pc' = "init_client"
               /\ ret' = ret
    /\ UNCHANGED <<request, scene_description, prompt, attempt, events, retry_result, result, arg,
                   calls>>

\* lines 51-62: the package is imported and the client is created
CreateClient ==
    /\ pc = "init_client"
    /\ CASE arg[1].genai = "missing" ->
              /\ pc' = "init_raised"
              /\ ret' = Some(ConstructorEnd(TRUE, [msg |-> MISSING_PACKAGE]))
              /\ UNCHANGED <<events, generator>>
         [] arg[1].genai = "raises" ->
              /\ pc' = "init_raised"
              /\ ret' = Some(ConstructorEnd(TRUE, [msg |-> BOOM]))
              /\ events' = Append(events, Event("client", 0, "raise", NoCall))
              /\ UNCHANGED generator
         [] OTHER ->
              /\ pc' = "init_done"
              /\ ret' = Some(ConstructorEnd(FALSE, NoException))
              /\ events' = Append(events, Event("client", 0, "return", NoCall))
              /\ generator' = [generator EXCEPT !.client = Some(Client(generator.api_key[1]))]
    /\ UNCHANGED <<request, scene_description, prompt, attempt, retry_result, result, arg, calls>>

SpecConstruct == InitConstruct /\ [][ResolveKey \/ CreateClient]_vars

\* the first of the three variables, in the order of the claim, that is set
\* to a non-empty value; None when there is none
FirstNonEmpty(environ) ==
    LET values == <<environ.GOOGLE_API_KEY, environ.GEMINI_API_KEY,
                    environ.GOOGLE_GEMINI_API_KEY>>
        set == {i \in 1..3 : values[i] # None /\ values[i][1] # <<>>}
    IN IF set = {} THEN None ELSE values[CHOOSE i \in set : \A j \in set : i <= j]

\* line 46 has run
KeyResolved == pc \in {"init_client", "init_done", "init_raised"}

\* construction raised the ValueError of line 48 with no client created and
\* nothing called
RaisedAtOnce ==
    /\ pc = "init_raised"
    /\ ret = Some(ConstructorEnd(TRUE, [msg |-> MISSING_KEY]))
    /\ generator.client = None
    /\ events = <<>>

\* no remote call is made during construction, the client is created at most
\* once, and only with the resolved credential
ClientAfterKey ==
    /\ \A i \in 1..Len(events) : events[i].kind = "client"
    /\ Len(events) <= 1
    /\ generator.client # None =>
          /\ pc = "init_done"
          /\ generator.api_key # None
          /\ generator.client[1].api_key = generator.api_key[1]

\* C12 as claimed: the credential is the explicit parameter when one is
\* supplied (is not None), otherwise the first non-empty of GOOGLE_API_KEY,
\* GEMINI_API_KEY, GOOGLE_GEMINI_API_KEY; with no credential construction
\* raises at once, before a client is created or anything is called.
C12_ParameterWhenSupplied ==
    KeyResolved =>
        LET param == arg[1].api_key
            found == FirstNonEmpty(arg[1].environ)
        IN /\ param # None => generator.api_key = param
           /\ (param = None /\ found # None) => generator.api_key = found
           /\ (param = None /\ found = None) => RaisedAtOnce
           /\ ClientAfterKey

\* C12 amended: the credential is the explicit parameter when it is a
\* non-empty string; when it is None or empty, the first non-empty of
\* GOOGLE_API_KEY, GEMINI_API_KEY, GOOGLE_GEMINI_API_KEY in this order; when
\* neither gives a non-empty value construction raises ValueError at once:
\* no client is created, nothing is called, and nothing is tried again.
C12_ParameterWhenNonEmpty ==
    /\ pc = "init_call" => generator = NewObject /\ events = <<>>
    /\ KeyResolved =>
        LET param == arg[1].api_key
            supplied == param # None /\ param[1] # <<>>
            found == FirstNonEmpty(arg[1].environ)
        IN /\ supplied => generator.api_key = param
           /\ (~supplied /\ found # None) => generator.api_key = found
           /\ (~supplied /\ found = None) => RaisedAtOnce
           /\ (supplied \/ found # None) =>
                 ~(ret # None /\ ret[1].exc = [msg |-> MISSING_KEY])
           /\ ClientAfterKey

C12_Witness ==
    /\ pc = "init_done"
    /\ arg[1].api_key = Some(<<>>)
    /\ arg[1].environ.GOOGLE_API_KEY = Some(<<>>)
    /\ arg[1].environ.GEMINI_API_KEY = Some(GEMINI_KEY)
    /\ arg[1].environ.GOOGLE_GEMINI_API_KEY = Some(GOOGLE_GEMINI_KEY)
    /\ generator = Generator(Some(GEMINI_KEY), Some(Client(GEMINI_KEY)))

----------------------------------------------------------------------------
(* Concurrent calls of generate_image on one generator                     *)
(* calls[c] holds the locals of call c: where it stands, its request, its  *)
(* scene_description and prompt, the loop variable attempt of its          *)
(* _generate_with_retry, the remote calls and sleeps it has made, and how  *)
(* it ended.  The steps of different calls interleave freely.              *)

\* the request of call c
RequestOf(c) ==
    IF c % 2 = 1 THEN EdgeRequest
    ELSE ImageRequest(INCLUSIVE_HEADLINE, INCLUSIVE_KEYWORD,
                      CompanyData(INCLUSIVE_COMPANY, INCLUSIVE_INDUSTRY, Some(INCLUSIVE_CUSTOM)))

\* the behaviours of the two endpoints towards concurrent calls: the text
\* endpoint is over its quota, so that each scene comes from the keyword of
\* the call's own request
ConcurrentTextCalls == {TextRaises(QUOTA)}
ConcurrentImageCalls == {ImageRaises(BOOM), ImageReturns(None), ImageReturns(OnePart(JpegPart))}

InitConcurrent == pc = "concurrent" /\ Idle /\ arg = None /\ ret = None

\* A faulty variant: the loop variable is kept on the generator, so a call
\* sees the attempts of the other calls.
AttemptCounterOnGenerator(cs, c) ==
    CHOOSE n \in {cs[d].attempt : d \in DOMAIN cs} : \A d \in DOMAIN cs : cs[d].attempt <= n

\* line 244: attempt is a local of the call
AttemptCounter(cs, c) == cs[c].attempt

\* the call ends with what its _generate_with_retry ended with
Finished(call, retry_end, evs) ==
    [call EXCEPT
        !.pc = "done",
        !.events = evs,
        !.retry_result = Some(retry_end),
        !.result = Some(Facade(call.request[1], call.scene_description[1], call.prompt[1],
                               retry_end, Elapsed(evs)))]

\* generate_image(RequestOf(c)) is called by thread c
StartCall(c) ==
    /\ calls[c].pc = "idle"
    /\ calls' = [calls EXCEPT ![c] = [@ EXCEPT !.pc = "scene", !.request = Some(RequestOf(c))]]
    /\ UNCHANGED <<pc, request, scene_description, prompt, attempt, events, retry_result, result,
                   arg, ret, generator>>

\* lines 86-93 in thread c, with self.client of the generator
SceneStep(c, text_call) ==
    /\ calls[c].pc = "scene"
    /\ generator.client # None
    /\ LET req == calls[c].request[1]
           scene == _generate_intelligent_scene(req.keyword, req.company_data.industry,
                                                text_call)
       IN calls' = [calls EXCEPT ![c] =
                      [@ EXCEPT
                          !.pc = "attempt",
                          !.scene_description = Some(scene),
                          !.prompt = Some(_build_professional_prompt(req, scene)),
                          !.attempt = 0,
                          !.events = Append(@, Event("text", 0,
                                       IF text_call.raises THEN "raise" ELSE "return",
                                       text_call))]]
    /\ UNCHANGED <<pc, request, scene_description, prompt, attempt, events, retry_result, result,
                   arg, ret, generator>>

\* one attempt of _generate_with_retry in thread c
AttemptStep(c, image_call) ==
    /\ calls[c].pc = "attempt"
    /\ generator.client # None
    /\ LET n == AttemptCounter(calls, c)
           step == RetryAttempt(n, image_call)
           how == IF image_call.raises THEN "raise"
                  ELSE IF step.then = "return" THEN "image" ELSE "no_image"
           evs == Append(calls[c].events, Event("image", n + 1, how, image_call))
       IN calls' = [calls EXCEPT ![c] =
                      CASE step.then = "return" ->
                             Finished(@, RetryEnd(FALSE, NoException, step.image_bytes), evs)
                        [] step.then = "raise" ->
                             Finished(@, RetryEnd(TRUE, step.exc, None), evs)
                        [] OTHER -> [@ EXCEPT !.pc = "sleep", !.events = evs]]
    /\ UNCHANGED <<pc, request, scene_description, prompt, attempt, events, retry_result, result,
                   arg, ret, generator>>

\* time.sleep returns in thread c; its loop goes on or is exhausted
SleepStep(c) ==
    /\ calls[c].pc = "sleep"
    /\ LET n == AttemptCounter(calls, c)
           evs == Append(calls[c].events, Event("sleep", SleepFor(n), "sleep", NoCall))
       IN calls' = [calls EXCEPT ![c] =
                      IF n + 1 < max_retries
                      THEN [@ EXCEPT !.pc = "attempt", !.attempt = n + 1, !.events = evs]
                      ELSE Finished([@ EXCEPT !.attempt = n + 1],
                                    RetryEnd(FALSE, NoException, None), evs)]
    /\ UNCHANGED <<pc, request, scene_description, prompt, attempt, events, retry_result, result,
                   arg, ret, generator>>

\* thread c has its response and may call again
ReturnStep(c) ==
    /\ calls[c].pc = "done"
    /\ calls' = [calls EXCEPT ![c] = IdleCall]
    /\ UNCHANGED <<pc, request, scene_description, prompt, attempt, events, retry_result, result,
                   arg, ret, generator>>

NextConcurrent ==
    \E c \in CallIds :
        \/ StartCall(c)
        \/ \E text_call \in ConcurrentTextCalls : SceneStep(c, text_call)
        \/ \E image_call \in ConcurrentImageCalls : AttemptStep(c, image_call)
        \/ SleepStep(c)
        \/ ReturnStep(c)

SpecConcurrent == InitConcurrent /\ [][NextConcurrent]_vars

\* the behaviours the image endpoint showed to a call, in the order of its
\* attempts
RECURSIVE ImageCallsOf(_)
ImageCallsOf(evs) ==
    IF evs = <<>> THEN <<>>
    ELSE (IF Head(evs).kind = "image" THEN <<Head(evs).call>> ELSE <<>>)
         \o ImageCallsOf(Tail(evs))

\* _generate_with_retry run by itself from attempt n on against the given
\* behaviours of the image endpoint, slept being the time slept so far
RECURSIVE RetryAlone(_, _, _)
RetryAlone(n, image_calls, slept) ==
    IF n >= max_retries \/ image_calls = <<>>
    THEN [retry_end |-> RetryEnd(FALSE, NoException, None), slept |-> slept]
    ELSE LET image_call == Head(image_calls) IN
         IF image_call.raises
         THEN IF n = max_retries - 1
              THEN [retry_end |-> RetryEnd(TRUE, image_call.exc, None), slept |-> slept]
              ELSE RetryAlone(n + 1, Tail(image_calls), slept + 5 * (n + 1))
         ELSE LET image_bytes == _extract_image_from_response(image_call.response) IN
              IF image_bytes # None /\ image_bytes[1] # <<>>
              THEN [retry_end |-> RetryEnd(FALSE, NoException, image_bytes), slept |-> slept]
              ELSE RetryAlone(n + 1, Tail(image_calls), slept + 5 * (n + 1))

\* what generate_image(req) returns when it is the only call, the text
\* endpoint behaves as text_call and the image endpoint as image_calls
Alone(req, text_call, image_calls) ==
    LET scene == _generate_intelligent_scene(req.keyword, req.company_data.industry, text_call)
        prompt_used == _build_professional_prompt(req, scene)
        ended == RetryAlone(0, image_calls, 0)
    IN Facade(req, scene, prompt_used, ended.retry_end, ended.slept)

\* C13: under every interleaving of the calls the generator keeps its
\* credential and its client, and the response of every finished call is the
\* one the same request gets alone from the same outcomes of its own remote
\* calls, whatever the other calls did in the meantime.
C13_CallsAreIndependent ==
    /\ generator = Constructed
    /\ \A c \in CallIds :
          calls[c].pc = "done" =>
              /\ calls[c].request = Some(RequestOf(c))
              /\ calls[c].result =
                    Some(Alone(calls[c].request[1], calls[c].events[1].call,
                               ImageCallsOf(calls[c].events)))

C13_Witness ==
    /\ calls[1].pc = "sleep"
    /\ calls[1].attempt = 1
    /\ calls[2].pc = "done"
    /\ calls[2].retry_result[1].raised
    /\ Len(ImageCallsOf(calls[2].events)) = max_retries
    /\ calls[2].result[1].response.error = Some(BOOM)

----------------------------------------------------------------------------
(* The order of the remote calls of one call of generate_image *)

\* the remote calls of the call so far, in order, without the sleeps
RemoteCalls == SelectSeq(events, LAMBDA e : e.kind \in {"text", "image"})

\* the attempt got a response that carries a valid image
YieldedImage(e) ==
    /\ e.kind = "image"
    /\ ~e.call.raises
    /\ _extract_image_from_response(e.call.response) # None

\* C14: the text endpoint is invoked once, before every invocation of the
\* image endpoint, and never again; the image endpoint is invoked at most 3
\* times, and at least once by the time the call ends; nothing is invoked
\* after an attempt that yielded a valid image.
C14_RemoteCallOrder ==
    LET remote == RemoteCalls IN
    /\ pc \in {"idle", "scene"} => remote = <<>>
    /\ pc \in {"attempt", "sleep", "done"} =>
          /\ Len(remote) >= 1
          /\ remote[1].kind = "text"
          /\ events[1] = remote[1]
    /\ \A i \in 2..Len(remote) : remote[i].kind = "image" /\ remote[i].n = i - 1
    /\ Len(remote) <= 1 + 3
    /\ pc = "done" => Len(remote) >= 2
    /\ \A i \in 1..Len(events) : YieldedImage(events[i]) => i = Len(events) /\ pc = "done"

C14_Witness ==
    /\ pc = "done"
    /\ Len(RemoteCalls) = 4
    /\ events[1].how = "raise"
    /\ YieldedImage(events[Len(events)])
    /\ Response.success

----------------------------------------------------------------------------
(* The length of a scene description taken from the text endpoint *)

\* C15: a scene description that comes from the text of the text endpoint is
\* at most 200 characters long, whatever the text, also when the text is
\* longer than 200 characters and has no period in its first 200.
C15_RemoteSceneAtMost200 ==
    (pc \in {"attempt", "sleep", "done"} /\ TextIsUsed(events[1].call)) =>
        Len(scene_description[1]) <= SceneMaxLen

====
